---- MODULE Spec2Model ----
(***************************************************************************)
(* Model of mwdata/utilities/load_data.py: load_data (the Loader),         *)
(* read_file_type (the Type Dispatcher) and download_gcs_file (the Remote  *)
(* Fetcher).  Paths, bucket names and object names are sequences of        *)
(* one-character strings so that os.path.splitext, the three regular       *)
(* expressions of read_file_type and the substring tests of                *)
(* download_gcs_file are computed the way the code computes them.          *)
(***************************************************************************)
EXTENDS Integers, Sequences, FiniteSets, TLC

VARIABLES pc, filepath, all_folders, kwargs, calls, result, error,
          order, bucket, file, prefix, extIdx, target, blobs, idx,
          shapefile_dir, fpath, staged, opened, tmp, writes, store

vars == <<pc, filepath, all_folders, kwargs, calls, result, error,
          order, bucket, file, prefix, extIdx, target, blobs, idx,
          shapefile_dir, fpath, staged, opened, tmp, writes, store>>

\* ------------------------------------------------------------------ bounds
MaxBlobs == 3
MaxResultsOpt == 1

Procs == {1, 2}

\* ----------------------------------------------------------------- strings
\* Python's None
None == <<"None">>

Max(S) == CHOOSE x \in S : \A y \in S : y <= x
Min(S) == CHOOSE x \in S : \A y \in S : x <= y

\* Python: sub in s
Contains(sub, s) ==
    \E i \in 0..(Len(s) - Len(sub)) : SubSeq(s, i + 1, i + Len(sub)) = sub

\* Python: s.startswith(pre) / s.endswith(suf)
StartsWith(s, pre) == Len(pre) <= Len(s) /\ SubSeq(s, 1, Len(pre)) = pre
EndsWith(s, suf) ==
    Len(suf) <= Len(s) /\ SubSeq(s, Len(s) - Len(suf) + 1, Len(s)) = suf

\* Python: s.rfind(c) + 1 (0 when c does not occur)
RFind(s, c) ==
    LET I == {i \in 1..Len(s) : s[i] = c} IN IF I = {} THEN 0 ELSE Max(I)

Reverse(s) == [i \in 1..Len(s) |-> s[Len(s) + 1 - i]]

\* os.path.splitext(p)[1]: the last dot of the last component, unless that
\* component has only dots before it
Splitext(p) ==
    LET sepIndex == RFind(p, "/")
        dotIndex == RFind(p, ".")
    IN IF dotIndex > sepIndex
          /\ \E k \in (sepIndex + 1)..(dotIndex - 1) : p[k] # "."
       THEN SubSeq(p, dotIndex, Len(p))
       ELSE <<>>

\* os.path.join(a, b) on posix
Join(a, b) ==
    IF StartsWith(b, <<"/">>) THEN b
    ELSE IF a = <<>> \/ EndsWith(a, <<"/">>) THEN a \o b
    ELSE a \o <<"/">> \o b

\* fpath.split("/")[-1]
Basename(s) == SubSeq(s, RFind(s, "/") + 1, Len(s))

\* the characters of the regular expression class [\w-]
WordChars ==
    {"a", "b", "c", "d", "e", "f", "g", "h", "i", "j", "k", "l", "m", "n",
     "o", "p", "q", "r", "s", "t", "u", "v", "w", "x", "y", "z",
     "A", "B", "C", "D", "E", "F", "G", "H", "I", "J", "K", "L", "M", "N",
     "O", "P", "Q", "R", "S", "T", "U", "V", "W", "X", "Y", "Z",
     "0", "1", "2", "3", "4", "5", "6", "7", "8", "9", "_", "-"}

\* the length of the longest run of [\w-] characters of s starting at i
WordRun(s, i) ==
    Max({k \in 0..(Len(s) - i + 1) :
            \A j \in i..(i + k - 1) : s[j] \in WordChars})

GS == <<"g", "s", ":", "/", "/">>
SHP == <<"s", "h", "p">>

\* re.search(r"(?<=gs://)[\w-]*", s): the leftmost position preceded by
\* "gs://", then the longest run of [\w-] characters (possibly empty)
BucketRe(s) ==
    LET I == {i \in 6..(Len(s) + 1) : SubSeq(s, i - 5, i - 1) = GS}
    IN IF I = {} THEN None
       ELSE LET i == Min(I) IN SubSeq(s, i, i + WordRun(s, i) - 1)

\* the lengths k of a [\w-]* run after the "/" at i that let ".shp" follow,
\* "." being any character but a newline
FileReRuns(s, i) ==
    {k \in 0..WordRun(s, i + 1) :
        /\ i + k + 4 <= Len(s)
        /\ s[i + k + 1] # "\n"
        /\ SubSeq(s, i + k + 2, i + k + 4) = SHP}

\* re.search(r"/[\w-]*.shp", s): leftmost match, greedy run
FileRe(s) ==
    LET I == {i \in 1..Len(s) : s[i] = "/" /\ FileReRuns(s, i) # {}}
    IN IF I = {} THEN None
       ELSE LET i == Min(I)
                k == Max(FileReRuns(s, i))
            IN SubSeq(s, i, i + k + 4)

\* the positions of a "/" that ".*/" can end at after b matched at i
PrefixReEnds(b, s, i) ==
    {j \in (i + Len(b))..Len(s) :
        /\ s[j] = "/"
        /\ \A m \in (i + Len(b))..(j - 1) : s[m] # "\n"}

\* re.search(r"{0}.*/".format(b), s) for a bucket b of [\w-] characters
PrefixRe(b, s) ==
    LET I == {i \in 1..(Len(s) + 1) :
                /\ i + Len(b) - 1 <= Len(s)
                /\ SubSeq(s, i, i + Len(b) - 1) = b
                /\ PrefixReEnds(b, s, i) # {}}
    IN IF I = {} THEN None
       ELSE LET i == Min(I) IN SubSeq(s, i, Max(PrefixReEnds(b, s, i)))

\* "gs://" in filepath
IsRemote(p) == Contains(GS, p)

\* ------------------------------------------------------------ the inputs
\* remote URIs, local files, local directories and missing paths
P_gs_m_d_ab_shp == <<"g", "s", ":", "/", "/", "m", "/", "d", "/", "a", "b", ".", "s", "h", "p">>
P_gs_m_e_ab_shp == <<"g", "s", ":", "/", "/", "m", "/", "e", "/", "a", "b", ".", "s", "h", "p">>
P_gs_mx_d_ab_shp == <<"g", "s", ":", "/", "/", "m", ".", "x", "/", "d", "/", "a", "b", ".", "s", "h", "p">>
P_gs_m_xshp_ab_shp == <<"g", "s", ":", "/", "/", "m", "/", "x", "s", "h", "p", "/", "a", "b", ".", "s", "h", "p">>
P_gs_mshp_d_ab_shp == <<"g", "s", ":", "/", "/", "m", "s", "h", "p", "/", "d", "/", "a", "b", ".", "s", "h", "p">>
P_gs_m_d_a_b_shp == <<"g", "s", ":", "/", "/", "m", "/", "d", "/", "a", ".", "b", ".", "s", "h", "p">>
P_gs_m_shp == <<"g", "s", ":", "/", "/", "m", ".", "s", "h", "p">>
P_gs_m_d_t_csv == <<"g", "s", ":", "/", "/", "m", "/", "d", "/", "t", ".", "c", "s", "v">>
P_gs_m_d_ab_SHP == <<"g", "s", ":", "/", "/", "m", "/", "d", "/", "a", "b", ".", "S", "H", "P">>
P_f_a_csv == <<"/", "f", "/", "a", ".", "c", "s", "v">>
P_f_g_json == <<"/", "f", "/", "g", ".", "j", "s", "o", "n">>
P_f_a_xlsx == <<"/", "f", "/", "a", ".", "x", "l", "s", "x">>
P_f_a_shp == <<"/", "f", "/", "a", ".", "s", "h", "p">>
P_f_a_dat == <<"/", "f", "/", "a", ".", "d", "a", "t">>
P_f_a == <<"/", "f", "/", "a">>
P_f_dotcsv == <<"/", "f", "/", ".", "c", "s", "v">>
P_f_a_CSV == <<"/", "f", "/", "a", ".", "C", "S", "V">>
P_d == <<"/", "d">>
P_d_s == <<"/", "d", "/", "s">>
P_d_s_u == <<"/", "d", "/", "s", "/", "u">>
P_d_z_txt == <<"/", "d", "/", "z", ".", "t", "x", "t">>
P_f == <<"/", "f">>
P_n == <<"/", "n">>
P_n_csv == <<"/", "n", ".", "c", "s", "v">>
P_d_q_txt == <<"/", "d", "/", "q", ".", "t", "x", "t">>

\* object names of the bucket "m"
B_m_d_ab_shp == <<"m", "/", "d", "/", "a", "b", ".", "s", "h", "p">>
B_m_d_ab_dbf == <<"m", "/", "d", "/", "a", "b", ".", "d", "b", "f">>
B_m_d_ab_shx == <<"m", "/", "d", "/", "a", "b", ".", "s", "h", "x">>
B_m_d_ == <<"m", "/", "d", "/">>
B_m_d_b_shp == <<"m", "/", "d", "/", "b", ".", "s", "h", "p">>
B_m_e_ab_shp == <<"m", "/", "e", "/", "a", "b", ".", "s", "h", "p">>
B_d_ab_shp == <<"d", "/", "a", "b", ".", "s", "h", "p">>

\* further files of the local file system
P_d_a_txt == <<"/", "d", "/", "a", ".", "t", "x", "t">>
P_d_c_csv == <<"/", "d", "/", "c", ".", "c", "s", "v">>
P_d_b_txt == <<"/", "d", "/", "b", ".", "t", "x", "t">>
P_d_e_TXT == <<"/", "d", "/", "e", ".", "T", "X", "T">>
P_d_s_f_txt == <<"/", "d", "/", "s", "/", "f", ".", "t", "x", "t">>
P_d_s_u_h_txt == <<"/", "d", "/", "s", "/", "u", "/", "h", ".", "t", "x", "t">>
P_d_z_txt_k_txt == <<"/", "d", "/", "z", ".", "t", "x", "t", "/", "k", ".", "t", "x", "t">>

TXT == <<".", "t", "x", "t">>
EXT_CSV == <<".", "c", "s", "v">>
EXT_JSON == <<".", "j", "s", "o", "n">>
EXT_SHP == <<".", "s", "h", "p">>
EXT_XLSX == <<".", "x", "l", "s", "x">>
EXT_DBF == <<".", "d", "b", "f">>
EXT_SHX == <<".", "s", "h", "x">>
NEWLINE == <<"\n">>
COMMA == <<",">>

\* GEO_EXTENSIONS = [".dbf", ".shp", ".shx"]
GEO_EXTENSIONS_Reordered == <<<<".", "s", "h", "p">>, <<".", "d", "b", "f">>, <<".", "s", "h", "x">>>>
GEO_EXTENSIONS == <<<<".", "d", "b", "f">>, <<".", "s", "h", "p">>, <<".", "s", "h", "x">>>>

\* tempfile.gettempdir()
TmpDir == <<"/", "t", "m", "p">>

\* "{} not a valid path".format(filepath)
ErrorMessage(path) == path \o <<" ", "n", "o", "t", " ", "a", " ", "v", "a", "l", "i", "d", " ", "p", "a", "t", "h">>

\* ------------------------------------------------- the local file system
\* every entry below the root, in the order the directories list them by
\* default; a load may see any directory listed in the opposite order
FsTree ==
    << [path |-> P_d, kind |-> "dir"],
       [path |-> P_f, kind |-> "dir"],
       [path |-> P_d_a_txt, kind |-> "file"],
       [path |-> P_d_c_csv, kind |-> "file"],
       [path |-> P_d_s, kind |-> "dir"],
       [path |-> P_d_z_txt, kind |-> "dir"],
       [path |-> P_d_b_txt, kind |-> "file"],
       [path |-> P_d_e_TXT, kind |-> "file"],
       [path |-> P_d_s_f_txt, kind |-> "file"],
       [path |-> P_d_s_u, kind |-> "dir"],
       [path |-> P_d_s_u_h_txt, kind |-> "file"],
       [path |-> P_d_z_txt_k_txt, kind |-> "file"],
       [path |-> P_f_a_csv, kind |-> "file"],
       [path |-> P_f_g_json, kind |-> "file"],
       [path |-> P_f_a_xlsx, kind |-> "file"],
       [path |-> P_f_a_shp, kind |-> "file"],
       [path |-> P_f_a_dat, kind |-> "file"],
       [path |-> P_f_a, kind |-> "file"],
       [path |-> P_f_dotcsv, kind |-> "file"],
       [path |-> P_f_a_CSV, kind |-> "file"] >>

FsFiles == {FsTree[i].path : i \in {j \in DOMAIN FsTree : FsTree[j].kind = "file"}}
FsDirs == {FsTree[i].path : i \in {j \in DOMAIN FsTree : FsTree[j].kind = "dir"}}

\* os.path.isfile / os.path.isdir
IsFile(p) == p \in FsFiles
IsDir(p) == p \in FsDirs

Parent(p) == SubSeq(p, 1, RFind(p, "/") - 1)

\* os.listdir(d) when the directories of R list in the opposite order
Listdir(d, R) ==
    LET InD(e) == Parent(e.path) = d
        es == SelectSeq(FsTree, InD)
        names == [i \in 1..Len(es) |-> Basename(es[i].path)]
    IN IF d \in R THEN Reverse(names) ELSE names

\* open(path, "r", encoding=encoding).read(): the whole file, decoded
ReadText(path, encoding) == [file |-> path, encoding |-> encoding]

\* load_data, all_folders=False: the loop over os.listdir(filepath)
TopLevelText_NoIsFile(d, R, encoding) ==
    LET Keep(n) == EndsWith(n, TXT)
        sel == SelectSeq(Listdir(d, R), Keep)
    IN [i \in 1..Len(sel) |-> ReadText(Join(d, sel[i]), encoding)]

TopLevelText(d, R, encoding) ==
    LET Keep(n) == IsFile(Join(d, n)) /\ EndsWith(n, TXT)
        sel == SelectSeq(Listdir(d, R), Keep)
    IN [i \in 1..Len(sel) |-> ReadText(Join(d, sel[i]), encoding)]

\* os.walk(top): top-down, (root, dirs, files) per directory
RECURSIVE Walk(_, _)
RECURSIVE WalkDirs(_, _, _)
Walk(top, R) ==
    LET names == Listdir(top, R)
        D(n) == IsDir(Join(top, n))
        F(n) == ~IsDir(Join(top, n))
        dirs == SelectSeq(names, D)
    IN << [root |-> top, dirs |-> dirs, files |-> SelectSeq(names, F)] >>
       \o WalkDirs(top, dirs, R)

WalkDirs(top, dirs, R) ==
    IF dirs = <<>> THEN <<>>
    ELSE Walk(Join(top, Head(dirs)), R) \o WalkDirs(top, Tail(dirs), R)

\* load_data, all_folders=True: the loops over os.walk(filepath) and files
RECURSIVE WalkText(_, _)
WalkText(triples, encoding) ==
    IF triples = <<>> THEN <<>>
    ELSE LET t == Head(triples)
             Keep(n) == EndsWith(n, TXT)
             sel == SelectSeq(t.files, Keep)
         IN [i \in 1..Len(sel) |-> ReadText(Join(t.root, sel[i]), encoding)]
            \o WalkText(Tail(triples), encoding)

\* the directories a load of d lists
ScanDirs(d, recurse) ==
    IF recurse
    THEN {x \in FsDirs : x = d \/ StartsWith(x, d \o <<"/">>)}
    ELSE {d}

\* the branch load_data takes
LoadBranch_LocalOnly(path) ==
    IF IsFile(path) THEN "file"
    ELSE IF IsDir(path) THEN "dir"
    ELSE "missing"

LoadBranch(path) ==
    IF IsFile(path) \/ IsRemote(path) THEN "file"
    ELSE IF IsDir(path) THEN "dir"
    ELSE "missing"

\* ------------------------------------------------------------ keyword bags
NoKwargs == <<>>

\* kwargs.pop(key, default): the value, and the bag that is left
Pop(kw, key, default) == IF key \in DOMAIN kw THEN kw[key] ELSE default
Without(kw, key) == [k \in DOMAIN kw \ {key} |-> kw[k]]
\* f(key=value, **kw)
With(kw, key, value) ==
    [k \in DOMAIN kw \cup {key} |-> IF k = key THEN value ELSE kw[k]]

KwargsChoices ==
    {NoKwargs, [lines |-> FALSE], [sep |-> COMMA], [encoding |-> "latin-1"]}
    \cup {[max_results |-> n] : n \in 1..MaxResultsOpt}

\* ------------------------------------------------------- the dispatcher
Invocation(op, path, b, pre, opts) ==
    [op |-> op, path |-> path, bucket |-> b, prefix |-> pre, opts |-> opts]

\* read_file_type, every branch but the remote shapefile: the reader called
ReaderCall_AnyCase(path, kw) ==
    LET extension == Splitext(path)
    IN IF extension \in {EXT_CSV, <<".", "C", "S", "V">>}
       THEN Invocation("pd.read_csv", path, None, None, kw)
       ELSE IF extension = EXT_JSON
       THEN Invocation("pd.read_json", path, None, None,
                       With(Without(kw, "lines"), "lines", Pop(kw, "lines", TRUE)))
       ELSE IF extension = EXT_SHP
       THEN Invocation("gpd.read_file", path, None, None, kw)
       ELSE IF extension = EXT_XLSX
       THEN Invocation("pd.read_excel", path, None, None, kw)
       ELSE Invocation("pd.read_csv", path, None, None,
                       With(Without(kw, "sep"), "sep", Pop(kw, "sep", NEWLINE)))

ReaderCall(path, kw) ==
    LET extension == Splitext(path)
    IN IF extension = EXT_CSV
       THEN Invocation("pd.read_csv", path, None, None, kw)
       ELSE IF extension = EXT_JSON
       THEN Invocation("pd.read_json", path, None, None,
                       With(Without(kw, "lines"), "lines", Pop(kw, "lines", TRUE)))
       ELSE IF extension = EXT_SHP
       THEN Invocation("gpd.read_file", path, None, None, kw)
       ELSE IF extension = EXT_XLSX
       THEN Invocation("pd.read_excel", path, None, None, kw)
       ELSE Invocation("pd.read_csv", path, None, None,
                       With(Without(kw, "sep"), "sep", Pop(kw, "sep", NEWLINE)))

\* the table an external reader returns for a call
Parsed(call) == [source |-> call.op, rows |-> <<ReadText(call.path, None)>>]

\* an error: its type, its message, and who raised it
Raised(type, msg, by) == [type |-> type, msg |-> msg, by |-> by]

\* a call that has raised nothing, returned nothing, opened nothing
NoError == [type |-> "", msg |-> None, by |-> ""]
NoResult == [source |-> "", rows |-> <<>>]
NotOpened == [blob |-> None, by |-> 0]

\* ------------------------------------------------------ the object store
ExistingBuckets == {<<"m">>}

BlobNames ==
    {B_m_d_ab_shp, B_m_d_ab_dbf, B_m_d_ab_shx, B_m_d_, B_m_d_b_shp,
     B_m_e_ab_shp, B_d_ab_shp}

\* the listings of bucket "m": up to MaxBlobs distinct objects in any order
Stores ==
    {s \in UNION {[1..n -> BlobNames] : n \in 0..MaxBlobs} :
        \A i, j \in DOMAIN s : i # j => s[i] # s[j]}

\* bucket.list_blobs(prefix=prefix, max_results=max_results)
\* with max_results = kwargs.pop("max_results", None)
ListBlobs(objects, pre, kw) ==
    LET Under(name) == StartsWith(name, pre)
        m == SelectSeq(objects, Under)
    IN IF "max_results" \notin DOMAIN kw THEN m
       ELSE SubSeq(m, 1, Min({kw["max_results"], Len(m)}))

\* line 113: fname in filepath
FnameMatches_Exact(fname, targetName) == fname = targetName
FnameMatches(fname, targetName) == Contains(fname, targetName)

\* blob.download_to_filename(dest): the file is created or overwritten
DownloadToFilename_KeepExisting(files, dest, content) ==
    [d \in DOMAIN files \cup {dest} |->
        IF d \in DOMAIN files THEN files[d] ELSE content]

DownloadToFilename(files, dest, content) ==
    [d \in DOMAIN files \cup {dest} |-> IF d = dest THEN content ELSE files[d]]

\* where control goes when the storage client raises: nothing catches it
TransferErrorPc_Swallowed == "for_blob"
TransferErrorPc == "raised"

\* ------------------------------------------------------------ the calls
Paths ==
    {P_gs_m_d_ab_shp, P_gs_m_e_ab_shp, P_gs_mx_d_ab_shp, P_gs_m_xshp_ab_shp,
     P_gs_mshp_d_ab_shp, P_gs_m_d_a_b_shp, P_gs_m_shp, P_gs_m_d_t_csv,
     P_gs_m_d_ab_SHP,
     P_f_a_csv, P_f_g_json, P_f_a_xlsx, P_f_a_shp, P_f_a_dat, P_f_a,
     P_f_dotcsv, P_f_a_CSV, P_d_a_txt,
     P_d, P_d_s, P_d_s_u, P_d_z_txt, P_f,
     P_n, P_n_csv, P_d_q_txt}

\* the calls of the two-caller runs: shapefiles of one base name in two
\* folders
ConcPaths == {P_gs_m_d_ab_shp, P_gs_m_e_ab_shp}
ConcStores == {<<B_m_d_ab_shp, B_m_e_ab_shp>>, <<B_m_e_ab_shp, B_m_d_ab_shp>>}

InitLocals ==
    /\ pc = [p \in Procs |-> "idle"]
    /\ filepath = [p \in Procs |-> None]
    /\ all_folders = [p \in Procs |-> FALSE]
    /\ kwargs = [p \in Procs |-> NoKwargs]
    /\ calls = [p \in Procs |-> <<>>]
    /\ result = [p \in Procs |-> NoResult]
    /\ error = [p \in Procs |-> NoError]
    /\ order = [p \in Procs |-> {}]
    /\ bucket = [p \in Procs |-> None]
    /\ file = [p \in Procs |-> None]
    /\ prefix = [p \in Procs |-> None]
    /\ extIdx = [p \in Procs |-> 0]
    /\ target = [p \in Procs |-> None]
    /\ blobs = [p \in Procs |-> <<>>]
    /\ idx = [p \in Procs |-> 0]
    /\ shapefile_dir = [p \in Procs |-> None]
    /\ fpath = [p \in Procs |-> None]
    /\ staged = [p \in Procs |-> <<>>]
    /\ opened = [p \in Procs |-> NotOpened]
    /\ tmp = <<>>
    /\ writes = <<>>

\* the bucket of the runs that exercise every entry point
SmallStores ==
    {<<>>, <<B_m_d_ab_shp>>, <<B_m_d_ab_dbf, B_m_d_ab_shp, B_m_d_ab_shx>>}

\* the calls of the runs that exercise the Remote Fetcher on every bucket
FetchPaths ==
    {P_gs_m_d_ab_shp, P_gs_m_e_ab_shp, P_gs_mx_d_ab_shp, P_gs_m_xshp_ab_shp,
     P_gs_mshp_d_ab_shp, P_gs_m_d_a_b_shp, P_gs_m_shp}
FetchKwargs == {NoKwargs} \cup {[max_results |-> n] : n \in 1..MaxResultsOpt}

Init == InitLocals /\ store \in SmallStores

InitFetch == InitLocals /\ store \in Stores

InitConc == InitLocals /\ store \in ConcStores

inputs == <<filepath, all_folders, kwargs>>
dispatchLocals == <<bucket, file, prefix, extIdx, fpath>>
fetchLocals == <<target, blobs, idx, shapefile_dir, staged>>
files == <<tmp, writes, store>>

\* a caller invokes load_data(path, all_folders=recurse, **kw)
Call(p, path, recurse, kw) ==
    /\ pc[p] = "idle"
    /\ pc' = [pc EXCEPT ![p] = "load_data"]
    /\ filepath' = [filepath EXCEPT ![p] = path]
    /\ all_folders' = [all_folders EXCEPT ![p] = recurse]
    /\ kwargs' = [kwargs EXCEPT ![p] = kw]
    /\ UNCHANGED <<calls, result, error, order, dispatchLocals, fetchLocals,
                   opened, files>>

\* load_data, lines 25-50
LoadData(p) ==
    /\ pc[p] = "load_data"
    /\ LET branch == LoadBranch(filepath[p])
           encoding == Pop(kwargs[p], "encoding", "utf-8")
       IN CASE branch = "file" ->
                 /\ pc' = [pc EXCEPT ![p] = "read_file_type"]
                 /\ UNCHANGED <<result, error, order>>
            [] branch = "dir" ->
                 \E R \in SUBSET ScanDirs(filepath[p], all_folders[p]) :
                 \E readable \in BOOLEAN :
                    LET text == IF all_folders[p]
                                THEN WalkText(Walk(filepath[p], R), encoding)
                                ELSE TopLevelText(filepath[p], R, encoding)
                    IN /\ order' = [order EXCEPT ![p] = R]
                       /\ IF readable \/ text = <<>>
                          THEN /\ result' = [result EXCEPT ![p] =
                                     [source |-> "pd.DataFrame", rows |-> text]]
                               /\ pc' = [pc EXCEPT ![p] = "done"]
                               /\ UNCHANGED error
                          ELSE /\ error' = [error EXCEPT ![p] =
                                     Raised("UnicodeDecodeError", None, "open")]
                               /\ pc' = [pc EXCEPT ![p] = "raised"]
                               /\ UNCHANGED result
            [] OTHER ->
                 /\ error' = [error EXCEPT ![p] =
                       Raised("FileNotFoundError", ErrorMessage(filepath[p]),
                              "load_data")]
                 /\ pc' = [pc EXCEPT ![p] = "raised"]
                 /\ UNCHANGED <<result, order>>
    /\ UNCHANGED <<inputs, calls, dispatchLocals, fetchLocals, opened, files>>

\* read_file_type, lines 66-76 and 82-88
ReadFileType(p) ==
    /\ pc[p] = "read_file_type"
    /\ IF Splitext(filepath[p]) = EXT_SHP /\ IsRemote(filepath[p])
       THEN LET b == BucketRe(filepath[p])
                f == FileRe(filepath[p])
                pre == IF b = None THEN None ELSE PrefixRe(b, filepath[p])
            IN IF b = None \/ f = None \/ pre = None
               THEN /\ error' = [error EXCEPT ![p] =
                          Raised("AttributeError", None, "read_file_type")]
                    /\ pc' = [pc EXCEPT ![p] = "raised"]
                    /\ UNCHANGED <<calls, result, dispatchLocals>>
               ELSE /\ bucket' = [bucket EXCEPT ![p] = b]
                    /\ file' = [file EXCEPT ![p] = f]
                    /\ prefix' = [prefix EXCEPT ![p] = pre]
                    /\ extIdx' = [extIdx EXCEPT ![p] = 1]
                    /\ pc' = [pc EXCEPT ![p] = "download_gcs_file"]
                    /\ UNCHANGED <<calls, result, error, fpath>>
       ELSE LET call == ReaderCall(filepath[p], kwargs[p])
            IN /\ calls' = [calls EXCEPT ![p] = Append(@, call)]
               /\ \E parses \in BOOLEAN :
                    IF parses
                    THEN /\ result' = [result EXCEPT ![p] = Parsed(call)]
                         /\ pc' = [pc EXCEPT ![p] = "done"]
                         /\ UNCHANGED error
                    ELSE /\ error' = [error EXCEPT ![p] =
                               Raised("FormatError", None, call.op)]
                         /\ pc' = [pc EXCEPT ![p] = "raised"]
                         /\ UNCHANGED result
               /\ UNCHANGED dispatchLocals
    /\ UNCHANGED <<inputs, order, fetchLocals, opened, files>>

\* read_file_type, lines 77-80, and download_gcs_file, lines 102-107:
\* the call for the next extension, up to the listing
DownloadGcsFile(p) ==
    /\ pc[p] = "download_gcs_file"
    /\ LET name == file[p] \o GEO_EXTENSIONS[extIdx[p]]
       IN /\ target' = [target EXCEPT ![p] = name]
          /\ calls' = [calls EXCEPT ![p] = Append(@,
                Invocation("download_gcs_file", name, bucket[p], prefix[p],
                           kwargs[p]))]
          /\ \E listed \in BOOLEAN :
               IF listed /\ bucket[p] \in ExistingBuckets
               THEN /\ blobs' = [blobs EXCEPT ![p] =
                          ListBlobs(store, prefix[p], kwargs[p])]
                    /\ idx' = [idx EXCEPT ![p] = 1]
                    /\ shapefile_dir' = [shapefile_dir EXCEPT ![p] = None]
                    /\ staged' = [staged EXCEPT ![p] = <<>>]
                    /\ pc' = [pc EXCEPT ![p] = "for_blob"]
                    /\ UNCHANGED error
               ELSE /\ error' = [error EXCEPT ![p] =
                          Raised("TransferError", None, "list_blobs")]
                    /\ pc' = [pc EXCEPT ![p] = TransferErrorPc]
                    /\ UNCHANGED <<blobs, idx, shapefile_dir, staged>>
    /\ UNCHANGED <<inputs, result, order, dispatchLocals, opened, files>>

\* download_gcs_file, lines 108-116: one iteration of the loop over blobs
ForBlob(p) ==
    /\ pc[p] = "for_blob"
    /\ idx[p] <= Len(blobs[p])
    /\ LET blob == blobs[p][idx[p]]
           fname == Basename(blob)
           dest == Join(TmpDir, fname)
       IN IF Len(fname) >= 1 /\ FnameMatches(fname, target[p])
          THEN \E transferred \in BOOLEAN :
                 IF transferred
                 THEN /\ tmp' = DownloadToFilename(tmp, dest,
                                    [blob |-> blob, by |-> p])
                      /\ writes' = Append(writes,
                                    [dest |-> dest, blob |-> blob, by |-> p])
                      /\ staged' = [staged EXCEPT ![p] = Append(@, blob)]
                      /\ shapefile_dir' = [shapefile_dir EXCEPT ![p] =
                            IF Contains(EXT_SHP, fname) THEN dest ELSE @]
                      /\ idx' = [idx EXCEPT ![p] = @ + 1]
                      /\ UNCHANGED <<pc, error>>
                 ELSE /\ error' = [error EXCEPT ![p] =
                            Raised("TransferError", None, "download_to_filename")]
                      /\ pc' = [pc EXCEPT ![p] = TransferErrorPc]
                      /\ UNCHANGED <<tmp, writes, staged, shapefile_dir, idx>>
          ELSE /\ idx' = [idx EXCEPT ![p] = @ + 1]
               /\ UNCHANGED <<pc, error, tmp, writes, staged, shapefile_dir>>
    /\ UNCHANGED <<inputs, calls, result, order, dispatchLocals, target, blobs,
                   opened, store>>

\* download_gcs_file, line 118, and the assignment and loop of lines 77-80
Return(p) ==
    /\ pc[p] = "for_blob"
    /\ idx[p] > Len(blobs[p])
    /\ fpath' = [fpath EXCEPT ![p] = shapefile_dir[p]]
    /\ calls' = [calls EXCEPT ![p] = Append(@,
          Invocation("return", shapefile_dir[p], None, None, NoKwargs))]
    /\ IF extIdx[p] < Len(GEO_EXTENSIONS)
       THEN /\ extIdx' = [extIdx EXCEPT ![p] = @ + 1]
            /\ pc' = [pc EXCEPT ![p] = "download_gcs_file"]
       ELSE /\ pc' = [pc EXCEPT ![p] = "gpd.read_file"]
            /\ UNCHANGED extIdx
    /\ UNCHANGED <<inputs, result, error, order, bucket, file, prefix,
                   fetchLocals, opened, files>>

\* read_file_type, line 81: the geospatial reader on the staged path
GpdReadFile(p) ==
    /\ pc[p] = "gpd.read_file"
    /\ LET call == Invocation("gpd.read_file", fpath[p], None, None, kwargs[p])
           there == fpath[p] \in DOMAIN tmp
       IN /\ calls' = [calls EXCEPT ![p] = Append(@, call)]
          /\ opened' = [opened EXCEPT ![p] = IF there THEN tmp[fpath[p]] ELSE NotOpened]
          /\ \E parses \in BOOLEAN :
               IF parses /\ there
               THEN /\ result' = [result EXCEPT ![p] = Parsed(call)]
                    /\ pc' = [pc EXCEPT ![p] = "done"]
                    /\ UNCHANGED error
               ELSE /\ error' = [error EXCEPT ![p] =
                          Raised("FormatError", None, call.op)]
                    /\ pc' = [pc EXCEPT ![p] = "raised"]
                    /\ UNCHANGED result
    /\ UNCHANGED <<inputs, order, dispatchLocals, fetchLocals, files>>

\* one call of load_data, start to finish
Next ==
    \/ \E path \in Paths, recurse \in BOOLEAN, kw \in KwargsChoices :
          Call(1, path, recurse, kw)
    \/ LoadData(1)
    \/ ReadFileType(1)
    \/ DownloadGcsFile(1)
    \/ ForBlob(1)
    \/ Return(1)
    \/ GpdReadFile(1)

Spec == Init /\ [][Next]_vars

\* one call of load_data on a remote shapefile, over every bucket content
NextFetch ==
    \/ \E path \in FetchPaths, kw \in FetchKwargs : Call(1, path, FALSE, kw)
    \/ LoadData(1)
    \/ ReadFileType(1)
    \/ DownloadGcsFile(1)
    \/ ForBlob(1)
    \/ Return(1)
    \/ GpdReadFile(1)

SpecFetch == InitFetch /\ [][NextFetch]_vars

\* two callers, each running one call of load_data, interleaved at the
\* calls to the file system and the object store
NextConc ==
    \E p \in Procs :
        \/ \E path \in ConcPaths, recurse \in BOOLEAN : Call(p, path, recurse, NoKwargs)
        \/ LoadData(p)
        \/ ReadFileType(p)
        \/ DownloadGcsFile(p)
        \/ ForBlob(p)
        \/ Return(p)
        \/ GpdReadFile(p)

SpecConc == InitConc /\ [][NextConc]_vars

\* ============================================================ properties
Ops(p) == [i \in 1..Len(calls[p]) |-> calls[p][i].op]
Decided(p) == pc[p] \notin {"idle", "load_data"}

\* C1: load_data itself raises FileNotFoundError exactly when the path is
\* not an existing file, does not contain "gs://" and is not an existing
\* directory; the error carries the path, and by then no reader, no
\* dispatcher branch and no fetch has been invoked.
C1_PathNotFound ==
    \A p \in {q \in Procs : Decided(q)} :
        LET missing == /\ filepath[p] \notin FsFiles
                       /\ ~Contains(GS, filepath[p])
                       /\ filepath[p] \notin FsDirs
            raisedHere == error[p].by = "load_data"
        IN /\ raisedHere <=> missing
           /\ raisedHere =>
                /\ pc[p] = "raised"
                /\ error[p].type = "FileNotFoundError"
                /\ StartsWith(error[p].msg, filepath[p])
                /\ Len(error[p].msg) > Len(filepath[p])
                /\ calls[p] = <<>>
                /\ writes = <<>>
                /\ result[p] = NoResult

C1_Witness ==
    /\ pc[1] = "raised"
    /\ error[1].type = "FileNotFoundError"
    /\ filepath[1] = P_n_csv

\* C4: read_file_type picks its reader from the exact, case-sensitive
\* extension alone: .csv -> CSV reader, options untouched; .json -> JSON
\* reader with lines=True unless given; .xlsx -> spreadsheet reader; .shp
\* without "gs://" -> geospatial reader on the original path, no fetch;
\* anything else -> CSV reader with sep from the options, default newline.
\* The fetcher is invoked only for .shp paths containing "gs://".
C4_Dispatch ==
    \A p \in {q \in Procs : Decided(q) /\ pc[q] # "read_file_type"
                            /\ (filepath[q] \in FsFiles \/ Contains(GS, filepath[q]))} :
        LET path == filepath[p]
            ext == Splitext(path)
            kw == kwargs[p]
            first == calls[p][1]
            remoteShp == ext = EXT_SHP /\ Contains(GS, path)
        IN /\ (\E i \in DOMAIN calls[p] : calls[p][i].op = "download_gcs_file")
                => remoteShp
           /\ ~remoteShp =>
                /\ Len(calls[p]) = 1
                /\ first.path = path
                /\ CASE ext = EXT_CSV ->
                          first.op = "pd.read_csv" /\ first.opts = kw
                     [] ext = EXT_JSON ->
                          /\ first.op = "pd.read_json"
                          /\ DOMAIN first.opts = DOMAIN kw \cup {"lines"}
                          /\ first.opts.lines =
                                (IF "lines" \in DOMAIN kw THEN kw.lines ELSE TRUE)
                          /\ \A k \in DOMAIN kw : first.opts[k] = kw[k]
                     [] ext = EXT_XLSX ->
                          first.op = "pd.read_excel" /\ first.opts = kw
                     [] ext = EXT_SHP ->
                          first.op = "gpd.read_file" /\ first.opts = kw
                     [] OTHER ->
                          /\ first.op = "pd.read_csv"
                          /\ DOMAIN first.opts = DOMAIN kw \cup {"sep"}
                          /\ first.opts.sep =
                                (IF "sep" \in DOMAIN kw THEN kw.sep ELSE NEWLINE)
                          /\ \A k \in DOMAIN kw : first.opts[k] = kw[k]

C4_Witness ==
    /\ pc[1] = "done"
    /\ filepath[1] = P_f_a_CSV
    /\ calls[1][1].op = "pd.read_csv"
    /\ calls[1][1].opts.sep = NEWLINE

\* the position of a file in the listing of its directory, as the load saw it
ListedAt(f, R) ==
    LET names == Listdir(Parent(f), R)
    IN CHOOSE i \in DOMAIN names : names[i] = Basename(f)

\* C5: for an existing local directory, the table has exactly one row per
\* .txt file in scope, holding that file's text, in discovery order: only
\* the regular files directly in the directory without recursion, and the
\* files of the directory and of every nested directory with it; so every
\* row of the flat result is a row of the recursive one.
C5_DirectoryRows ==
    \A p \in {q \in Procs : pc[q] = "done" /\ ~Contains(GS, filepath[q])
                            /\ filepath[q] \in FsDirs} :
        LET d == filepath[p]
            rows == result[p].rows
            top == {f \in FsFiles : Parent(f) = d /\ EndsWith(f, TXT)}
            nested == {f \in FsFiles : StartsWith(f, d \o <<"/">>) /\ EndsWith(f, TXT)}
            scope == IF all_folders[p] THEN nested ELSE top
        IN /\ Len(rows) = Cardinality(scope)
           /\ {rows[i].file : i \in DOMAIN rows} = scope
           /\ top \subseteq {rows[i].file : i \in DOMAIN rows}
           /\ \A i \in DOMAIN rows :
                rows[i] = ReadText(rows[i].file, Pop(kwargs[p], "encoding", "utf-8"))
           /\ \A i, j \in DOMAIN rows :
                (i < j /\ Parent(rows[i].file) = Parent(rows[j].file))
                    => ListedAt(rows[i].file, order[p]) < ListedAt(rows[j].file, order[p])
           /\ \A i, j \in DOMAIN rows :
                StartsWith(Parent(rows[j].file), Parent(rows[i].file) \o <<"/">>)
                    => i < j
           /\ calls[p] = <<>>

C5_Witness ==
    /\ pc[1] = "done"
    /\ filepath[1] = P_d
    /\ all_folders[1]
    /\ P_d \in order[1]
    /\ Len(result[1].rows) = 5

\* ------------------------------------------------- the remote shapefile
RemoteShp(p) ==
    /\ filepath[p] # None
    /\ Splitext(filepath[p]) = EXT_SHP
    /\ Contains(GS, filepath[p])

ReaderInvoked(p) ==
    \E i \in DOMAIN calls[p] : calls[p][i].op = "gpd.read_file"

IsPrefixOf(s, t) == Len(s) <= Len(t) /\ SubSeq(t, 1, Len(s)) = s

\* C2: for a remote .shp URI the fetcher is invoked three times, for .dbf,
\* .shp and .shx in that order, each call returning before the next, and
\* the geospatial reader once, after the third return; nothing follows it.
C2_ThreeFetchesThenRead ==
    \A p \in {q \in Procs : RemoteShp(q)} :
        /\ IsPrefixOf(Ops(p),
              <<"download_gcs_file", "return", "download_gcs_file", "return",
                "download_gcs_file", "return", "gpd.read_file">>)
        /\ \A i \in DOMAIN calls[p] :
              /\ i = 1 => EndsWith(calls[p][i].path, EXT_DBF)
              /\ i = 3 => EndsWith(calls[p][i].path, EXT_SHP)
              /\ i = 5 => EndsWith(calls[p][i].path, EXT_SHX)
        /\ pc[p] = "gpd.read_file" => Len(calls[p]) = 6
        /\ pc[p] = "done" => Len(calls[p]) = 7

C2_Witness ==
    /\ pc[1] = "done"
    /\ filepath[1] = P_gs_m_d_ab_shp
    /\ Len(calls[1]) = 7
    /\ calls[1][7].op = "gpd.read_file"

\* the objects of a listing that the claim says a fetch downloads
ShouldStage(listing, targetName) ==
    LET Wanted(b) == Basename(b) # <<>> /\ Contains(Basename(b), targetName)
    IN SelectSeq(listing, Wanted)

\* the path the claim says a fetch returns, given what it downloaded
ShouldReturn(downloaded) ==
    LET S == {i \in DOMAIN downloaded : Contains(EXT_SHP, Basename(downloaded[i]))}
    IN IF S = {} THEN None
       ELSE TmpDir \o <<"/">> \o Basename(downloaded[Max(S)])

\* C7: a fetch downloads exactly the listed objects whose base name is not
\* empty and is a substring of the target filename, each to the temporary
\* directory under its base name, and returns the local path of the last
\* downloaded object whose base name contains ".shp", or None.
C7_FetchDownloadsAndReturns ==
    \A p \in Procs :
        /\ pc[p] = "for_blob" =>
              /\ staged[p] = ShouldStage(SubSeq(blobs[p], 1, idx[p] - 1), target[p])
              /\ shapefile_dir[p] = ShouldReturn(staged[p])
              /\ Len(staged[p]) <= Len(writes)
              /\ \A i \in DOMAIN staged[p] :
                    LET w == writes[Len(writes) - Len(staged[p]) + i]
                    IN /\ w.blob = staged[p][i]
                       /\ w.dest = TmpDir \o <<"/">> \o Basename(staged[p][i])
                       /\ w.dest \in DOMAIN tmp
        /\ (calls[p] # <<>> /\ calls[p][Len(calls[p])].op = "return") =>
              /\ staged[p] = ShouldStage(blobs[p], target[p])
              /\ calls[p][Len(calls[p])].path = ShouldReturn(staged[p])
              /\ fpath[p] = ShouldReturn(staged[p])
        /\ \A i \in DOMAIN writes :
              writes[i].by = p =>
                 \E j \in DOMAIN calls[p] :
                    /\ calls[p][j].op = "download_gcs_file"
                    /\ Contains(Basename(writes[i].blob), calls[p][j].path)

C7_Witness ==
    /\ calls[1] # <<>>
    /\ calls[1][Len(calls[1])].op = "return"
    /\ Len(blobs[1]) = 3
    /\ Len(staged[1]) = 2
    /\ fpath[1] = TmpDir \o <<"/">> \o <<"b", ".", "s", "h", "p">>

\* C9: an error of the storage client while listing or downloading leaves
\* the call raised with that error: no further download, no further fetch,
\* no geospatial read, and the files downloaded before it stay in the
\* temporary directory.
C9_TransferErrorPropagates ==
    [][\A p \in Procs :
          /\ error'[p].type = "TransferError" =>
                /\ pc'[p] = "raised"
                /\ error'[p].by \in {"list_blobs", "download_to_filename"}
                /\ result'[p] = NoResult
                /\ ~ReaderInvoked(p)'
                /\ \A i \in DOMAIN writes' :
                      writes'[i].dest \in DOMAIN tmp'
          /\ (error[p].type # "TransferError" /\ error'[p].type = "TransferError") =>
                /\ tmp' = tmp
                /\ writes' = writes
                /\ staged'[p] = staged[p]
          /\ error[p].type = "TransferError" =>
                /\ error'[p] = error[p]
                /\ calls'[p] = calls[p]
                /\ tmp' = tmp
                /\ writes' = writes
      ]_vars

C9_Witness ==
    /\ pc[1] = "raised"
    /\ error[1].type = "TransferError"
    /\ error[1].by = "download_to_filename"
    /\ extIdx[1] = 2
    /\ Len(writes) >= 2
    /\ TmpDir \o <<"/">> \o <<"a", "b", ".", "s", "h", "p">> \in DOMAIN tmp

\* the URI read as <scheme>://<bucket>/<object name>
AfterScheme(uri) ==
    LET i == Min({k \in 1..Len(uri) : SubSeq(uri, k, Min({k + 4, Len(uri)})) = GS})
    IN SubSeq(uri, i + 5, Len(uri))
BucketOf(uri) ==
    LET rest == AfterScheme(uri)
        S == {k \in 1..Len(rest) : rest[k] = "/"}
    IN IF S = {} THEN rest ELSE SubSeq(rest, 1, Min(S) - 1)
ObjectOf(uri) ==
    LET rest == AfterScheme(uri)
    IN SubSeq(rest, Len(BucketOf(uri)) + 2, Len(rest))
\* the base name of the URI without its ".shp"
StemOf(uri) == SubSeq(Basename(uri), 1, Len(Basename(uri)) - 4)

StagedAs(name) ==
    \E i \in DOMAIN writes : writes[i].dest = TmpDir \o <<"/">> \o name

Listed(p, name) ==
    \E i \in DOMAIN blobs[p] : Basename(blobs[p][i]) = name

\* C3: when the geospatial reader is invoked for a remote .shp URI whose
\* listing holds the siblings <base>.dbf, <base>.shp and <base>.shx, all
\* three have been downloaded to the temporary directory before.
C3_AllSiblingsStaged ==
    \A p \in {q \in Procs : RemoteShp(q) /\ ReaderInvoked(q)} :
        LET stem == StemOf(filepath[p])
        IN (/\ Listed(p, stem \o EXT_DBF)
            /\ Listed(p, stem \o EXT_SHP)
            /\ Listed(p, stem \o EXT_SHX))
           => (/\ StagedAs(stem \o EXT_DBF)
               /\ StagedAs(stem \o EXT_SHP)
               /\ StagedAs(stem \o EXT_SHX))

\* C6: for a remote .shp URI whose own object exists in the bucket, the
\* path handed to the geospatial reader is the temporary-directory copy of
\* that object, <tmpdir>/<base filename>, whatever else the bucket holds.
C6_ReaderGetsOwnShapefile ==
    \A p \in {q \in Procs : RemoteShp(q) /\ ReaderInvoked(q)} :
        (/\ BucketOf(filepath[p]) \in ExistingBuckets
         /\ \E i \in DOMAIN store : store[i] = ObjectOf(filepath[p]))
        => calls[p][Len(calls[p])].path = TmpDir \o <<"/">> \o Basename(filepath[p])

\* C8: the bucket passed to the fetcher is the text between "gs://" and the
\* next "/", and the filename passed is built on the final path segment of
\* the URI.
C8_FetchArguments ==
    \A p \in {q \in Procs : RemoteShp(q)} :
        \A i \in DOMAIN calls[p] :
            calls[p][i].op = "download_gcs_file" =>
                /\ calls[p][i].bucket = BucketOf(filepath[p])
                /\ Contains(Basename(filepath[p]), calls[p][i].path)

\* C10: the temporary directory is shared and unlocked: a staged file holds
\* what the last download to its name wrote, whichever caller that was, a
\* caller in its download loop is never made to wait, and what a reader
\* opens is what some download to that path wrote.
C10_LastWriterWins ==
    /\ \A d \in DOMAIN tmp :
          LET W == {i \in DOMAIN writes : writes[i].dest = d}
          IN /\ W # {}
             /\ tmp[d].blob = writes[Max(W)].blob
             /\ tmp[d].by = writes[Max(W)].by
    /\ \A p \in Procs :
          /\ pc[p] = "for_blob" => ENABLED (ForBlob(p) \/ Return(p))
          /\ opened[p] # NotOpened =>
                \E i \in DOMAIN writes :
                    /\ writes[i].dest = fpath[p]
                    /\ writes[i].blob = opened[p].blob
                    /\ writes[i].by = opened[p].by

\* caller 1 loads the shapefile of folder d and its reader opens the
\* object of folder e, staged by caller 2
C10_Witness ==
    /\ filepath[1] = P_gs_m_d_ab_shp
    /\ filepath[2] = P_gs_m_e_ab_shp
    /\ pc[1] = "done"
    /\ opened[1].by = 2
    /\ opened[1].blob = B_m_e_ab_shp

====
